---- MODULE Spec2Model ----
(***************************************************************************)
(* Model of the transaction execution engine (src/src/engine.rs), the      *)
(* account record (src/src/client.rs), the transaction value               *)
(* (src/src/transaction.rs) and the row loop that feeds the engine         *)
(* (src/src/main.rs).                                                      *)
(*                                                                         *)
(* Amounts are integers counting units of 0.0001 (rust_decimal values      *)
(* rounded to 4 fractional digits on ingestion).  Decimal is signed, and   *)
(* the decoder accepts negative amounts, so the inputs include one.        *)
(***************************************************************************)
EXTENDS Integers, FiniteSets, Sequences, TLC

VARIABLES
    clients,                \* Engine.clients: BTreeMap<u16, Client>
    transaction_log,        \* Engine.transaction_log: BTreeMap<u32, Transaction>
    disputed_transactions,  \* Engine.disputed_transactions: BTreeSet<u32>
    counter,                \* main: rows handed to the engine so far
    last,                   \* the transaction of the last row
    result,                 \* what execute returned for it
    pre_dispute,            \* history variable: the engine as it was before the last
                            \* successful Dispute, kept while the last row is that
                            \* Dispute or the Resolve of the same tx id right after it
    charged_back,           \* history variable: <<tx id, owning account>> of every
                            \* Chargeback that succeeded
    frozen_disputes,        \* history variable: tx ids that were in the dispute set,
                            \* owned by an account, when that account was locked
    pc,                     \* main: "reading" in the row loop, "reported" after
                            \* print_client_report, "aborted" after an early return
    stream,                 \* history variable: the rows the reader has yielded
    executed,               \* history variable: the transactions passed to execute
    report                  \* <<>> or <<the accounts written by print_client_report>>

vars == <<clients, transaction_log, disputed_transactions, counter, last, result,
          pre_dispute, charged_back, frozen_disputes, pc, stream, executed, report>>

\* ---------------------------------------------------------------- bounds
\* Rows fed to the engine in one run (any transaction identifiers).
MaxRows == 5
\* Rows fed to the engine in one run whose settlement identifiers are unique.
MaxUniqueRows == 6
\* Rows fed to the engine before two further transactions are compared in both
\* orders.
MaxShortRows == 2
\* Rows the reader yields in one run of main, undecodable ones included.
MaxMainRows == 2
\* Rows fed to the engine in one run that follows an account past its lock.
MaxFreezeRows == 8

ClientIds == {1, 2}
TxIds == {1, 2}
Amounts == {-1, 0, 1}

\* ------------------------------------------------------- data model
\* ExecutionError, plus "Ok" for Ok(()).
ExecutionError == {"InsufficientFunds", "AccountLocked", "TransactionNotFound",
                   "IneligibleTransaction", "NonDisputedTransaction",
                   "AlreadyDisputedTransaction"}

\* Transaction: the five variants of the enum.
\* (Record fields are written in one fixed order throughout, the order in which
\* the module first names them.)
Deposit(client_id, tx_id, amt) ==
    [kind |-> "Deposit", client |-> client_id, tx |-> tx_id, amount |-> amt]
Withdrawal(client_id, tx_id, amt) ==
    [kind |-> "Withdrawal", client |-> client_id, tx |-> tx_id, amount |-> amt]
Dispute(client_id, tx_id) ==
    [kind |-> "Dispute", client |-> client_id, tx |-> tx_id]
Resolve(client_id, tx_id) ==
    [kind |-> "Resolve", client |-> client_id, tx |-> tx_id]
Chargeback(client_id, tx_id) ==
    [kind |-> "Chargeback", client |-> client_id, tx |-> tx_id]

\* Client::new
ClientNew(id) ==
    [id |-> id, available |-> 0, held |-> 0, total |-> 0, locked |-> FALSE]

\* Engine::new
EngineNew ==
    [clients |-> <<>>, transaction_log |-> <<>>, disputed_transactions |-> {}]

\* Variant of MapInsert that keeps an existing entry (entry().or_insert()).
MapInsertKeepsExisting(m, k, v) ==
    [x \in (DOMAIN m) \cup {k} |-> IF x \in DOMAIN m THEN m[x] ELSE v]

\* BTreeMap::insert: the entry under key k is created or overwritten.
MapInsert(m, k, v) == [x \in (DOMAIN m) \cup {k} |-> IF x = k THEN v ELSE m[x]]

\* ------------------------------------------------------- engine helpers
\* Variant of fetch_or_create_client_mut without the locked test (lines 99-101).
fetch_or_create_client_mut_no_lock_test(cl, client_id) ==
    [clients |-> IF client_id \in DOMAIN cl THEN cl
                 ELSE [x \in (DOMAIN cl) \cup {client_id} |->
                          IF x = client_id
                          THEN [id |-> client_id, available |-> 0, held |-> 0,
                                total |-> 0, locked |-> FALSE]
                          ELSE cl[x]],
     err |-> "Ok"]

\* fetch_or_create_client_mut: entry(client_id).or_insert(Client::new) happens
\* before the locked test, so the entry exists afterwards on both paths.
fetch_or_create_client_mut(cl, client_id) ==
    LET cl2 == IF client_id \in DOMAIN cl THEN cl
               ELSE MapInsert(cl, client_id, ClientNew(client_id))
    IN  [clients |-> cl2,
         err |-> IF cl2[client_id].locked THEN "AccountLocked" ELSE "Ok"]

\* Variant of fetch_disputed_transaction that accepts any history entry.
fetch_disputed_transaction_any_kind(log, tx_id) ==
    IF tx_id \notin DOMAIN log
    THEN [client_id |-> 0, amount |-> 0, err |-> "TransactionNotFound"]
    ELSE [client_id |-> log[tx_id].client, amount |-> log[tx_id].amount, err |-> "Ok"]

\* fetch_disputed_transaction
fetch_disputed_transaction(log, tx_id) ==
    IF tx_id \notin DOMAIN log
    THEN [client_id |-> 0, amount |-> 0, err |-> "TransactionNotFound"]
    ELSE IF log[tx_id].kind = "Deposit"
         THEN [client_id |-> log[tx_id].client, amount |-> log[tx_id].amount, err |-> "Ok"]
         ELSE [client_id |-> 0, amount |-> 0, err |-> "IneligibleTransaction"]

Return(e, r) == [result |-> r, engine |-> e]

\* The balance updates of the five arms, on the fetched client.
\* Variant of deposit_apply without `client.total += amount`.
deposit_apply_forgets_total(c, amount) ==
    [c EXCEPT !.available = c.available + amount]

deposit_apply(c, amount) ==
    [c EXCEPT !.available = c.available + amount, !.total = c.total + amount]

\* Variant of withdrawal_allowed with `>` for `>=`.
withdrawal_allowed_strict(c, amount) == c.available > amount

withdrawal_allowed(c, amount) == c.available >= amount

withdrawal_apply(c, amount) ==
    [c EXCEPT !.available = c.available - amount, !.total = c.total - amount]

dispute_apply(c, src_amount) ==
    [c EXCEPT !.available = c.available - src_amount, !.held = c.held + src_amount]

\* Variant of resolve_apply without `client.held -= src_amount`.
resolve_apply_keeps_held(c, src_amount) ==
    [c EXCEPT !.available = c.available + src_amount]

resolve_apply(c, src_amount) ==
    [c EXCEPT !.available = c.available + src_amount, !.held = c.held - src_amount]

\* Variant of chargeback_apply without `client.total -= src_amount`.
chargeback_apply_forgets_total(c, src_amount) ==
    [c EXCEPT !.held = c.held - src_amount, !.locked = TRUE]

chargeback_apply(c, src_amount) ==
    [c EXCEPT !.held = c.held - src_amount, !.total = c.total - src_amount,
              !.locked = TRUE]

\* execute, Transaction::Deposit arm
execute_deposit(e, transaction) ==
    LET f == fetch_or_create_client_mut(e.clients, transaction.client)
        c == f.clients[transaction.client]
    IN  IF f.err # "Ok"
        THEN Return([e EXCEPT !.clients = f.clients], f.err)
        ELSE Return([e EXCEPT
                 !.clients = [f.clients EXCEPT ![transaction.client] =
                     deposit_apply(c, transaction.amount)],
                 !.transaction_log = MapInsert(e.transaction_log, transaction.tx, transaction)],
               "Ok")

\* Variant of the Withdrawal arm that leaves the ledger alone when it rejects the
\* row (no entry inserted for an unknown client).
execute_withdrawal_rejects_without_insert(e, transaction) ==
    LET f == fetch_or_create_client_mut(e.clients, transaction.client)
        c == f.clients[transaction.client]
    IN  IF f.err # "Ok"
        THEN Return(e, f.err)
        ELSE IF withdrawal_allowed(c, transaction.amount)
        THEN Return([e EXCEPT
                 !.clients = [f.clients EXCEPT ![transaction.client] =
                     withdrawal_apply(c, transaction.amount)],
                 !.transaction_log = MapInsert(e.transaction_log, transaction.tx, transaction)],
               "Ok")
        ELSE Return(e, "InsufficientFunds")

\* execute, Transaction::Withdrawal arm
execute_withdrawal(e, transaction) ==
    LET f == fetch_or_create_client_mut(e.clients, transaction.client)
        c == f.clients[transaction.client]
    IN  IF f.err # "Ok"
        THEN Return([e EXCEPT !.clients = f.clients], f.err)
        ELSE IF withdrawal_allowed(c, transaction.amount)
        THEN Return([e EXCEPT
                 !.clients = [f.clients EXCEPT ![transaction.client] =
                     withdrawal_apply(c, transaction.amount)],
                 !.transaction_log = MapInsert(e.transaction_log, transaction.tx, transaction)],
               "Ok")
        ELSE Return([e EXCEPT !.clients = f.clients], "InsufficientFunds")

\* Variant of the Dispute arm that looks the tx id up in the history before it
\* tests the dispute set.
execute_dispute_looks_up_first(e, transaction) ==
    LET src == fetch_disputed_transaction(e.transaction_log, transaction.tx)
    IN  IF src.err # "Ok" THEN Return(e, src.err)
        ELSE IF transaction.tx \in e.disputed_transactions
        THEN Return(e, "AlreadyDisputedTransaction")
        ELSE LET f == fetch_or_create_client_mut(e.clients, src.client_id)
                 c == f.clients[src.client_id]
             IN  IF f.err # "Ok"
                 THEN Return([e EXCEPT !.clients = f.clients], f.err)
                 ELSE Return([e EXCEPT
                          !.clients = [f.clients EXCEPT ![src.client_id] =
                              dispute_apply(c, src.amount)],
                          !.disputed_transactions = @ \cup {transaction.tx}],
                        "Ok")

\* Variant of the Dispute arm that holds the funds on the account the row carries
\* instead of the account stored in the history entry.
execute_dispute_on_carried_client(e, transaction) ==
    IF transaction.tx \in e.disputed_transactions
    THEN Return(e, "AlreadyDisputedTransaction")
    ELSE LET src == fetch_disputed_transaction(e.transaction_log, transaction.tx)
         IN  IF src.err # "Ok" THEN Return(e, src.err)
             ELSE LET f == fetch_or_create_client_mut(e.clients, transaction.client)
                      c == f.clients[transaction.client]
                  IN  IF f.err # "Ok"
                      THEN Return([e EXCEPT !.clients = f.clients], f.err)
                      ELSE Return([e EXCEPT
                               !.clients = [f.clients EXCEPT ![transaction.client] =
                                   dispute_apply(c, src.amount)],
                               !.disputed_transactions = @ \cup {transaction.tx}],
                             "Ok")

\* execute, Transaction::Dispute arm
execute_dispute(e, transaction) ==
    IF transaction.tx \in e.disputed_transactions
    THEN Return(e, "AlreadyDisputedTransaction")
    ELSE LET src == fetch_disputed_transaction(e.transaction_log, transaction.tx)
         IN  IF src.err # "Ok" THEN Return(e, src.err)
             ELSE LET f == fetch_or_create_client_mut(e.clients, src.client_id)
                      c == f.clients[src.client_id]
                  IN  IF f.err # "Ok"
                      THEN Return([e EXCEPT !.clients = f.clients], f.err)
                      ELSE Return([e EXCEPT
                               !.clients = [f.clients EXCEPT ![src.client_id] =
                                   dispute_apply(c, src.amount)],
                               !.disputed_transactions = @ \cup {transaction.tx}],
                             "Ok")

\* Variant of the Resolve arm that looks the tx id up in the history before it
\* tests the dispute set.
execute_resolve_looks_up_first(e, transaction) ==
    LET src == fetch_disputed_transaction(e.transaction_log, transaction.tx)
    IN  IF src.err # "Ok" THEN Return(e, src.err)
        ELSE IF transaction.tx \notin e.disputed_transactions
        THEN Return(e, "NonDisputedTransaction")
        ELSE LET f == fetch_or_create_client_mut(e.clients, src.client_id)
                 c == f.clients[src.client_id]
             IN  IF f.err # "Ok"
                 THEN Return([e EXCEPT !.clients = f.clients], f.err)
                 ELSE Return([e EXCEPT
                          !.clients = [f.clients EXCEPT ![src.client_id] =
                              resolve_apply(c, src.amount)],
                          !.disputed_transactions = @ \ {transaction.tx}],
                        "Ok")

\* execute, Transaction::Resolve arm
execute_resolve(e, transaction) ==
    IF transaction.tx \notin e.disputed_transactions
    THEN Return(e, "NonDisputedTransaction")
    ELSE LET src == fetch_disputed_transaction(e.transaction_log, transaction.tx)
         IN  IF src.err # "Ok" THEN Return(e, src.err)
             ELSE LET f == fetch_or_create_client_mut(e.clients, src.client_id)
                      c == f.clients[src.client_id]
                  IN  IF f.err # "Ok"
                      THEN Return([e EXCEPT !.clients = f.clients], f.err)
                      ELSE Return([e EXCEPT
                               !.clients = [f.clients EXCEPT ![src.client_id] =
                                   resolve_apply(c, src.amount)],
                               !.disputed_transactions = @ \ {transaction.tx}],
                             "Ok")

\* execute, Transaction::Chargeback arm
execute_chargeback(e, transaction) ==
    IF transaction.tx \notin e.disputed_transactions
    THEN Return(e, "NonDisputedTransaction")
    ELSE LET src == fetch_disputed_transaction(e.transaction_log, transaction.tx)
         IN  IF src.err # "Ok" THEN Return(e, src.err)
             ELSE LET f == fetch_or_create_client_mut(e.clients, src.client_id)
                      c == f.clients[src.client_id]
                  IN  IF f.err # "Ok"
                      THEN Return([e EXCEPT !.clients = f.clients], f.err)
                      ELSE Return([e EXCEPT
                               !.clients = [f.clients EXCEPT ![src.client_id] =
                                   chargeback_apply(c, src.amount)],
                               !.disputed_transactions = @ \ {transaction.tx}],
                             "Ok")

\* Engine::execute: the match on the transaction's variant.
execute(e, transaction) ==
    CASE transaction.kind = "Deposit"    -> execute_deposit(e, transaction)
      [] transaction.kind = "Withdrawal" -> execute_withdrawal(e, transaction)
      [] transaction.kind = "Dispute"    -> execute_dispute(e, transaction)
      [] transaction.kind = "Resolve"    -> execute_resolve(e, transaction)
      [] transaction.kind = "Chargeback" -> execute_chargeback(e, transaction)

\* ------------------------------------------------------- state machine
\* The engine as one value (the three fields of struct Engine).
Engine ==
    [clients |-> clients, transaction_log |-> transaction_log,
     disputed_transactions |-> disputed_transactions]

\* Values of the history variable pre_dispute.
NoSnapshot == [set |-> FALSE]
Snapshot(e) == [engine |-> e, set |-> TRUE]

\* main: the engine is new, no row has been processed.
Init ==
    /\ clients = EngineNew.clients
    /\ transaction_log = EngineNew.transaction_log
    /\ disputed_transactions = EngineNew.disputed_transactions
    /\ counter = 0
    /\ last = [kind |-> "None"]
    /\ result = "None"
    /\ pre_dispute = NoSnapshot
    /\ charged_back = {}
    /\ frozen_disputes = {}
    /\ pc = "reading"
    /\ stream = <<>>
    /\ executed = <<>>
    /\ report = <<>>

\* main, one iteration of the row loop for a decoded row: engine.execute(transaction),
\* the error (if any) only reported, counter += 1.  cap bounds the length of the run.
ExecuteRow(transaction, cap) ==
    /\ pc = "reading"
    /\ counter < cap
    /\ LET r == execute(Engine, transaction)
       IN  /\ clients' = r.engine.clients
           /\ transaction_log' = r.engine.transaction_log
           /\ disputed_transactions' = r.engine.disputed_transactions
           /\ result' = r.result
           /\ pre_dispute' =
                 IF transaction.kind = "Dispute" /\ r.result = "Ok"
                 THEN Snapshot(Engine)
                 ELSE IF /\ transaction.kind = "Resolve"
                         /\ last.kind = "Dispute" /\ result = "Ok"
                         /\ transaction.tx = last.tx
                      THEN pre_dispute
                      ELSE NoSnapshot
           /\ charged_back' =
                 IF transaction.kind = "Chargeback" /\ r.result = "Ok"
                 THEN charged_back \cup
                          {<<transaction.tx, transaction_log[transaction.tx].client>>}
                 ELSE charged_back
           /\ frozen_disputes' =
                 IF transaction.kind = "Chargeback" /\ r.result = "Ok"
                 THEN frozen_disputes \cup
                          {t \in r.engine.disputed_transactions :
                              /\ transaction_log[t].kind = "Deposit"
                              /\ transaction_log[t].client =
                                     transaction_log[transaction.tx].client}
                 ELSE frozen_disputes
    /\ last' = transaction
    /\ counter' = counter + 1

\* A decoded row of a stream in which every row decodes; the reader is not modelled.
Row(transaction, cap) ==
    /\ ExecuteRow(transaction, cap)
    /\ UNCHANGED <<pc, stream, executed, report>>

DepositRow ==
    \E c \in ClientIds, t \in TxIds, a \in Amounts : Row(Deposit(c, t, a), MaxRows)
WithdrawalRow ==
    \E c \in ClientIds, t \in TxIds, a \in Amounts : Row(Withdrawal(c, t, a), MaxRows)
DisputeRow == \E c \in ClientIds, t \in TxIds : Row(Dispute(c, t), MaxRows)
ResolveRow == \E c \in ClientIds, t \in TxIds : Row(Resolve(c, t), MaxRows)
ChargebackRow == \E c \in ClientIds, t \in TxIds : Row(Chargeback(c, t), MaxRows)

Next == DepositRow \/ WithdrawalRow \/ DisputeRow \/ ResolveRow \/ ChargebackRow

\* Any stream of rows.
Spec == Init /\ [][Next]_vars

\* Streams in which no two settlement rows share a tx id (the input contract of the
\* record format).  A rejected settlement leaves no trace of its tx id in the engine,
\* so requiring the id to be absent from transaction_log reaches the same engine
\* states as requiring it to be fresh in the stream.
UniqueDepositRow ==
    \E c \in ClientIds, t \in TxIds \ DOMAIN transaction_log, a \in Amounts :
        Row(Deposit(c, t, a), MaxUniqueRows)
UniqueWithdrawalRow ==
    \E c \in ClientIds, t \in TxIds \ DOMAIN transaction_log, a \in Amounts :
        Row(Withdrawal(c, t, a), MaxUniqueRows)
UniqueDisputeRow == \E c \in ClientIds, t \in TxIds : Row(Dispute(c, t), MaxUniqueRows)
UniqueResolveRow == \E c \in ClientIds, t \in TxIds : Row(Resolve(c, t), MaxUniqueRows)
UniqueChargebackRow ==
    \E c \in ClientIds, t \in TxIds : Row(Chargeback(c, t), MaxUniqueRows)

NextUnique ==
    \/ UniqueDepositRow \/ UniqueWithdrawalRow
    \/ UniqueDisputeRow \/ UniqueResolveRow \/ UniqueChargebackRow

SpecUnique == Init /\ [][NextUnique]_vars

\* Short runs of any rows: the states from which pairs of transactions are compared.
ShortDepositRow ==
    \E c \in ClientIds, t \in TxIds, a \in Amounts : Row(Deposit(c, t, a), MaxShortRows)
ShortWithdrawalRow ==
    \E c \in ClientIds, t \in TxIds, a \in Amounts : Row(Withdrawal(c, t, a), MaxShortRows)
ShortDisputeRow == \E c \in ClientIds, t \in TxIds : Row(Dispute(c, t), MaxShortRows)
ShortResolveRow == \E c \in ClientIds, t \in TxIds : Row(Resolve(c, t), MaxShortRows)
ShortChargebackRow == \E c \in ClientIds, t \in TxIds : Row(Chargeback(c, t), MaxShortRows)

NextShort ==
    \/ ShortDepositRow \/ ShortWithdrawalRow
    \/ ShortDisputeRow \/ ShortResolveRow \/ ShortChargebackRow

SpecShort == Init /\ [][NextShort]_vars

\* Longer runs of any rows, tx ids reused or not, over fewer values: every amount
\* is 1 and a Dispute, Resolve or Chargeback carries client 1 (the arms do not read
\* the client a dispute-family record carries).
FreezeAmounts == {1}
FreezeCarriedClients == {1}
FreezeDepositRow ==
    \E c \in ClientIds, t \in TxIds, a \in FreezeAmounts :
        Row(Deposit(c, t, a), MaxFreezeRows)
FreezeWithdrawalRow ==
    \E c \in ClientIds, t \in TxIds, a \in FreezeAmounts :
        Row(Withdrawal(c, t, a), MaxFreezeRows)
FreezeDisputeRow ==
    \E c \in FreezeCarriedClients, t \in TxIds : Row(Dispute(c, t), MaxFreezeRows)
FreezeResolveRow ==
    \E c \in FreezeCarriedClients, t \in TxIds : Row(Resolve(c, t), MaxFreezeRows)
FreezeChargebackRow ==
    \E c \in FreezeCarriedClients, t \in TxIds : Row(Chargeback(c, t), MaxFreezeRows)

NextFreeze ==
    \/ FreezeDepositRow \/ FreezeWithdrawalRow
    \/ FreezeDisputeRow \/ FreezeResolveRow \/ FreezeChargebackRow

SpecFreeze == Init /\ [][NextFreeze]_vars

\* ------------------------------------------------------ main with its reader
\* Every transaction value the decoder can hand to the engine, within the input sets.
AllTransactions ==
    {Deposit(c, t, a) : c \in ClientIds, t \in TxIds, a \in Amounts}
    \cup {Withdrawal(c, t, a) : c \in ClientIds, t \in TxIds, a \in Amounts}
    \cup {Dispute(c, t) : c \in ClientIds, t \in TxIds}
    \cup {Resolve(c, t) : c \in ClientIds, t \in TxIds}
    \cup {Chargeback(c, t) : c \in ClientIds, t \in TxIds}

\* Rows the reader can yield besides decoded transactions: a record that
\* record.deserialize rejects (unknown type, non-numeric field), and an Err from
\* the reader itself (a record whose field count differs from the header's, bytes
\* that are not UTF-8).
Undeserializable == [kind |-> "Undeserializable"]
Unreadable == [kind |-> "Unreadable"]

\* Printed report: the accounts in ascending id order, which is the map itself.
print_client_report(e) == <<e.clients>>

\* main, lines 28-38 for a record that deserializes.
MainDecodedRow ==
    /\ Len(stream) < MaxMainRows
    /\ \E transaction \in AllTransactions :
          /\ ExecuteRow(transaction, MaxMainRows)
          /\ stream' = Append(stream, transaction)
          /\ executed' = Append(executed, transaction)
    /\ UNCHANGED <<pc, report>>

\* main, lines 28-33: record.deserialize fails, diagnostic, continue.
MainUndeserializableRow ==
    /\ pc = "reading"
    /\ Len(stream) < MaxMainRows
    /\ stream' = Append(stream, Undeserializable)
    /\ UNCHANGED <<clients, transaction_log, disputed_transactions, counter, last,
                   result, pre_dispute, charged_back, frozen_disputes, pc, executed,
                   report>>

\* main, line 28: the reader yields Err and `rec?` returns it from main.
MainUnreadableRow ==
    /\ pc = "reading"
    /\ Len(stream) < MaxMainRows
    /\ stream' = Append(stream, Unreadable)
    /\ pc' = "aborted"
    /\ UNCHANGED <<clients, transaction_log, disputed_transactions, counter, last,
                   result, pre_dispute, charged_back, frozen_disputes, executed,
                   report>>

\* main, lines 43-48: the reader is exhausted, the report is printed.
MainEndOfStream ==
    /\ pc = "reading"
    /\ pc' = "reported"
    /\ report' = print_client_report(Engine)
    /\ UNCHANGED <<clients, transaction_log, disputed_transactions, counter, last,
                   result, pre_dispute, charged_back, frozen_disputes, stream,
                   executed>>

NextMain ==
    \/ MainDecodedRow \/ MainUndeserializableRow
    \/ MainUnreadableRow \/ MainEndOfStream

SpecMain == Init /\ [][NextMain]_vars

\* =================================================================== claims
\* The account of client c as a lookup sees it: the stored record, or what
\* fetch_or_create_client_mut would create when there is none yet.
AccountOf(cl, c) == IF c \in DOMAIN cl THEN cl[c] ELSE ClientNew(c)

\* The engine is exactly what it was before the row.
EngineUnchanged ==
    /\ clients' = clients
    /\ transaction_log' = transaction_log
    /\ disputed_transactions' = disputed_transactions

\* C1: in every reachable state every account of the ledger has
\* total = available + held.
C1_TotalIsAvailablePlusHeld ==
    \A c \in DOMAIN clients :
        clients[c].total = clients[c].available + clients[c].held

\* C1 witness: an account with funds both available and held, after a row.
C1_Witness ==
    \E c \in DOMAIN clients :
        /\ clients[c].available # 0
        /\ clients[c].held # 0
        /\ clients[c].total = clients[c].available + clients[c].held

\* C2: a successful Chargeback locks the owning account; a locked account stays
\* locked in every later state; and every later Deposit or Withdrawal naming it
\* returns AccountLocked, leaves the account as it was and writes no history entry.
C2_LockIsPermanent ==
    [][ /\ (last'.kind = "Chargeback" /\ result' = "Ok") =>
              LET owner == transaction_log[last'.tx].client
              IN  owner \in DOMAIN clients' /\ clients'[owner].locked
        /\ \A c \in DOMAIN clients :
              clients[c].locked =>
                  /\ c \in DOMAIN clients'
                  /\ clients'[c].locked
                  /\ (last'.kind \in {"Deposit", "Withdrawal"} /\ last'.client = c) =>
                         /\ result' = "AccountLocked"
                         /\ clients'[c] = clients[c]
                         /\ transaction_log' = transaction_log
      ]_vars

\* C2 witness: a Deposit or Withdrawal was rejected on a locked account.
C2_Witness ==
    /\ last.kind \in {"Deposit", "Withdrawal"}
    /\ result = "AccountLocked"
    /\ clients[last.client].locked

\* C3 (as claimed): whenever execute returns an error, the ledger's accounts, the
\* history and the dispute set are exactly what they were before the call.
C3_ErrorLeavesEngineUnchanged ==
    [][ result' \in ExecutionError => EngineUnchanged ]_vars

\* C4 (as claimed): Resolve of a tx id that is in the dispute set succeeds, moves the
\* deposit's amount from held back to available on the owning account (total
\* unchanged) and removes the tx id from the dispute set.
C4_ResolveOfDisputedSucceeds ==
    [][ (last'.kind = "Resolve" /\ last'.tx \in disputed_transactions) =>
            /\ result' = "Ok"
            /\ LET src == transaction_log[last'.tx]
                   old == clients[src.client]
                   new == clients'[src.client]
               IN  /\ new.available = old.available + src.amount
                   /\ new.held = old.held - src.amount
                   /\ new.total = old.total
            /\ disputed_transactions' = disputed_transactions \ {last'.tx}
      ]_vars

\* C5 (as claimed): Chargeback of a tx id that is in the dispute set succeeds, takes
\* the deposit's amount off held and total on the owning account (available
\* unchanged), locks that account and removes the tx id from the dispute set.
C5_ChargebackOfDisputedSucceeds ==
    [][ (last'.kind = "Chargeback" /\ last'.tx \in disputed_transactions) =>
            /\ result' = "Ok"
            /\ LET src == transaction_log[last'.tx]
                   old == clients[src.client]
                   new == clients'[src.client]
               IN  /\ new.held = old.held - src.amount
                   /\ new.total = old.total - src.amount
                   /\ new.available = old.available
                   /\ new.locked
            /\ disputed_transactions' = disputed_transactions \ {last'.tx}
      ]_vars

\* C6 (as claimed): Dispute of a tx id that is not in the dispute set and whose
\* history entry is a Deposit succeeds: the amount moves from available to held on
\* the owning account (no test of available against the amount, total unchanged)
\* and the tx id enters the dispute set.
C6_DisputeOfDepositSucceeds ==
    [][ ( /\ last'.kind = "Dispute"
          /\ last'.tx \notin disputed_transactions
          /\ last'.tx \in DOMAIN transaction_log
          /\ transaction_log[last'.tx].kind = "Deposit" ) =>
            /\ result' = "Ok"
            /\ LET src == transaction_log[last'.tx]
                   old == clients[src.client]
                   new == clients'[src.client]
               IN  /\ new.available = old.available - src.amount
                   /\ new.held = old.held + src.amount
                   /\ new.total = old.total
            /\ disputed_transactions' = disputed_transactions \cup {last'.tx}
      ]_vars

\* C7: a Deposit of amount a >= 0 naming an account that is not locked (or not yet
\* in the ledger) succeeds, adds exactly a to available and to total, leaves held
\* and locked alone and records itself in the history under its tx id; naming a
\* locked account it returns AccountLocked and changes no balance and no history.
C7_Deposit ==
    [][ (last'.kind = "Deposit" /\ last'.amount >= 0) =>
            LET old == AccountOf(clients, last'.client)
                new == AccountOf(clients', last'.client)
            IN  IF ~old.locked
                THEN /\ result' = "Ok"
                     /\ last'.client \in DOMAIN clients'
                     /\ new.available = old.available + last'.amount
                     /\ new.total = old.total + last'.amount
                     /\ new.held = old.held
                     /\ new.locked = old.locked
                     /\ last'.tx \in DOMAIN transaction_log'
                     /\ transaction_log'[last'.tx] =
                            Deposit(last'.client, last'.tx, last'.amount)
                ELSE /\ result' = "AccountLocked"
                     /\ clients' = clients
                     /\ transaction_log' = transaction_log
      ]_vars

\* C7 witness: a Deposit of a positive amount succeeded on an account that already
\* held disputed funds.
C7_Witness ==
    /\ last.kind = "Deposit"
    /\ last.amount > 0
    /\ result = "Ok"
    /\ clients[last.client].held > 0
    /\ clients[last.client].available >= last.amount
    /\ transaction_log[last.tx] = last

\* C8: a Withdrawal of amount a >= 0 naming an account that is not locked succeeds
\* exactly when available >= a before the call; then available and total drop by
\* exactly a, held is untouched and the row is recorded in the history under its tx
\* id; otherwise it returns InsufficientFunds and changes no balance and no history.
\* Naming a locked account it returns AccountLocked whatever the balance.
C8_Withdrawal ==
    [][ (last'.kind = "Withdrawal" /\ last'.amount >= 0) =>
            LET old == AccountOf(clients, last'.client)
                new == AccountOf(clients', last'.client)
            IN  IF old.locked
                THEN /\ result' = "AccountLocked"
                     /\ clients' = clients
                     /\ transaction_log' = transaction_log
                ELSE /\ (result' = "Ok") <=> (old.available >= last'.amount)
                     /\ result' \in {"Ok", "InsufficientFunds"}
                     /\ result' = "Ok" =>
                            /\ new.available = old.available - last'.amount
                            /\ new.total = old.total - last'.amount
                            /\ new.held = old.held
                            /\ new.locked = old.locked
                            /\ last'.tx \in DOMAIN transaction_log'
                            /\ transaction_log'[last'.tx] =
                                   Withdrawal(last'.client, last'.tx, last'.amount)
                     /\ result' = "InsufficientFunds" =>
                            /\ new = old
                            /\ transaction_log' = transaction_log
      ]_vars

\* C8 witness: a Withdrawal of exactly the available amount (> 0) succeeded.
C8_Witness ==
    /\ last.kind = "Withdrawal"
    /\ last.amount > 0
    /\ result = "Ok"
    /\ clients[last.client].available = 0
    /\ transaction_log[last.tx] = last

\* C9: a successful Dispute of t followed at once by Resolve of t (no row in
\* between) leaves the owning account's available, held, total and locked, and the
\* dispute set, exactly as they were before the Dispute.
C9_DisputeResolveRoundTrip ==
    (last.kind = "Resolve" /\ pre_dispute.set) =>
        LET owner == transaction_log[last.tx].client
        IN  /\ result = "Ok"
            /\ clients[owner] = pre_dispute.engine.clients[owner]
            /\ disputed_transactions = pre_dispute.engine.disputed_transactions
            /\ last.tx \notin disputed_transactions

\* C9 witness: the Resolve that directly followed a successful Dispute of a deposit
\* of a non-zero amount has run.
C9_Witness ==
    /\ last.kind = "Resolve"
    /\ pre_dispute.set
    /\ result = "Ok"
    /\ transaction_log[last.tx].amount > 0
    /\ clients[transaction_log[last.tx].client].available > 0

\* C10: Dispute tests its rejections in a fixed order: a tx id in the dispute set
\* gives AlreadyDisputedTransaction; otherwise one with no history entry gives
\* TransactionNotFound; otherwise one whose history entry is a Withdrawal gives
\* IneligibleTransaction.  In each case no account and no dispute-set membership
\* changes.
C10_DisputeRejectionOrder ==
    [][ last'.kind = "Dispute" =>
            IF last'.tx \in disputed_transactions
            THEN /\ result' = "AlreadyDisputedTransaction"
                 /\ EngineUnchanged
            ELSE IF last'.tx \notin DOMAIN transaction_log
            THEN /\ result' = "TransactionNotFound"
                 /\ EngineUnchanged
            ELSE transaction_log[last'.tx].kind = "Withdrawal" =>
                 /\ result' = "IneligibleTransaction"
                 /\ EngineUnchanged
      ]_vars

\* C10 witness: a Dispute was rejected as already disputed although the history
\* entry of its tx id is by now a Withdrawal (the first test decides).
C10_Witness ==
    /\ last.kind = "Dispute"
    /\ result = "AlreadyDisputedTransaction"
    /\ transaction_log[last.tx].kind = "Withdrawal"

\* C11: Resolve and Chargeback of a tx id that is not in the dispute set (never
\* disputed, resolved, charged back, or unknown to the history) return
\* NonDisputedTransaction, whatever the lock state of any account, and change
\* nothing.
C11_NotDisputedIsRejected ==
    [][ ( /\ last'.kind \in {"Resolve", "Chargeback"}
          /\ last'.tx \notin disputed_transactions ) =>
            /\ result' = "NonDisputedTransaction"
            /\ EngineUnchanged
      ]_vars

\* C11 witness: a Resolve or Chargeback of a charged-back deposit, whose owner is
\* locked, was rejected as not disputed.
C11_Witness ==
    /\ last.kind \in {"Resolve", "Chargeback"}
    /\ result = "NonDisputedTransaction"
    /\ last.tx \in DOMAIN transaction_log
    /\ transaction_log[last.tx].kind = "Deposit"
    /\ clients[transaction_log[last.tx].client].locked

\* C12 (as claimed): in every reachable state every tx id in the dispute set has a
\* history entry that is a Deposit, so Resolve and Chargeback never return
\* TransactionNotFound or IneligibleTransaction.
C12_DisputedAreDeposits ==
    /\ \A t \in disputed_transactions :
          t \in DOMAIN transaction_log /\ transaction_log[t].kind = "Deposit"
    /\ last.kind \in {"Resolve", "Chargeback"} =>
          result \notin {"TransactionNotFound", "IneligibleTransaction"}

\* C12 (amended): every tx id in the dispute set has a history entry; the entry is a
\* Deposit when the tx id enters the set and stays one unless a successful
\* Withdrawal carrying the same tx id overwrites it.  Resolve and Chargeback never
\* return TransactionNotFound, and return IneligibleTransaction only for a disputed
\* tx id whose entry was overwritten in that way.
C12_DisputedAreDepositsUnlessOverwritten ==
    [][ /\ \A t \in disputed_transactions' :
              /\ t \in DOMAIN transaction_log'
              /\ transaction_log'[t].kind # "Deposit" =>
                     /\ t \in disputed_transactions
                     /\ \/ transaction_log[t].kind # "Deposit"
                        \/ (last'.kind = "Withdrawal" /\ last'.tx = t /\ result' = "Ok")
        /\ last'.kind \in {"Resolve", "Chargeback"} =>
              /\ result' # "TransactionNotFound"
              /\ result' = "IneligibleTransaction" =>
                     /\ last'.tx \in disputed_transactions
                     /\ transaction_log[last'.tx].kind = "Withdrawal"
      ]_vars

\* C12 witness: a Resolve or Chargeback of a disputed tx id was rejected as
\* ineligible, the history entry being by now a Withdrawal.
C12_Witness ==
    /\ last.kind \in {"Resolve", "Chargeback"}
    /\ result = "IneligibleTransaction"
    /\ last.tx \in disputed_transactions
    /\ transaction_log[last.tx].kind = "Withdrawal"

\* C13 (as claimed): after a row of any of the five kinds, successful or rejected,
\* the account whose identifier the row carries is in the ledger; accounts are
\* never removed.
C13_AnyRowCreatesItsAccount ==
    [][ /\ last'.client \in DOMAIN clients'
        /\ DOMAIN clients \subseteq DOMAIN clients'
      ]_vars

\* C13 (amended): an account is in the ledger from the first Deposit or Withdrawal
\* row, successful or rejected, that carries its identifier; it is created as
\* available = held = total = 0, locked = false, to which only that row's own
\* balance update (if it succeeds) is applied; Dispute, Resolve and Chargeback rows
\* create no account; accounts are never removed.
C13_SettlementRowCreatesItsAccount ==
    [][ /\ DOMAIN clients \subseteq DOMAIN clients'
        /\ last'.kind \in {"Deposit", "Withdrawal"} =>
              /\ DOMAIN clients' = DOMAIN clients \cup {last'.client}
              /\ last'.client \notin DOMAIN clients =>
                     LET new == clients'[last'.client]
                         moved == IF result' # "Ok" THEN 0
                                  ELSE IF last'.kind = "Deposit" THEN last'.amount
                                  ELSE 0 - last'.amount
                     IN  /\ new.id = last'.client
                         /\ new.available = moved
                         /\ new.held = 0
                         /\ new.total = moved
                         /\ new.locked = FALSE
        /\ last'.kind \in {"Dispute", "Resolve", "Chargeback"} =>
              DOMAIN clients' = DOMAIN clients
      ]_vars

\* C13 witness: the first row, a rejected Withdrawal, created the account it names.
C13_Witness ==
    /\ counter = 1
    /\ last.kind = "Withdrawal"
    /\ result = "InsufficientFunds"
    /\ last.client \in DOMAIN clients
    /\ clients[last.client] = ClientNew(last.client)

\* C14 (as claimed): the history is append-only: an entry appears under t only when
\* a Deposit or Withdrawal carrying t succeeds, and an entry once written is never
\* removed and never changes, whatever rows follow.
C14_HistoryEntriesNeverChange ==
    [][ /\ \A t \in DOMAIN transaction_log :
              t \in DOMAIN transaction_log' /\ transaction_log'[t] = transaction_log[t]
        /\ \A t \in DOMAIN transaction_log' \ DOMAIN transaction_log :
              /\ last'.kind \in {"Deposit", "Withdrawal"}
              /\ last'.tx = t
              /\ result' = "Ok"
      ]_vars

\* C14 (amended): an entry is written under t only when a Deposit or Withdrawal
\* carrying t succeeds, and it is then that transaction; an entry is never removed;
\* it changes only when a later Deposit or Withdrawal carrying the same tx id
\* succeeds, which replaces it by that transaction.
C14_HistoryChangesOnlyBySettlement ==
    [][ /\ DOMAIN transaction_log \subseteq DOMAIN transaction_log'
        /\ \A t \in DOMAIN transaction_log' :
              (t \notin DOMAIN transaction_log \/ transaction_log'[t] # transaction_log[t]) =>
                  /\ last'.kind \in {"Deposit", "Withdrawal"}
                  /\ last'.tx = t
                  /\ result' = "Ok"
        /\ (last'.kind \in {"Deposit", "Withdrawal"} /\ result' = "Ok") =>
              /\ last'.tx \in DOMAIN transaction_log'
              /\ transaction_log'[last'.tx] = last'
        /\ result' # "Ok" => transaction_log' = transaction_log
      ]_vars

\* C14 witness: a successful Withdrawal replaced the entry of a tx id that is in
\* the dispute set (so was a Deposit).
C14_Witness ==
    /\ last.kind = "Withdrawal"
    /\ result = "Ok"
    /\ last.tx \in disputed_transactions
    /\ transaction_log[last.tx] = last

\* C15: lifecycle of a deposit whose tx id no other settlement reuses.  A Dispute
\* succeeds only on a tx id outside the dispute set and puts it in; a Resolve or
\* Chargeback succeeds only on a tx id in the dispute set and takes it out; nothing
\* else changes the dispute set; and once a Chargeback of t has succeeded, no later
\* Dispute, Resolve or Chargeback of t succeeds and t is never in the dispute set
\* again.
C15_ChargedBackIsTerminal ==
    [][ /\ (last'.kind = "Dispute" /\ result' = "Ok") =>
              /\ last'.tx \notin disputed_transactions
              /\ disputed_transactions' = disputed_transactions \cup {last'.tx}
        /\ (last'.kind \in {"Resolve", "Chargeback"} /\ result' = "Ok") =>
              /\ last'.tx \in disputed_transactions
              /\ disputed_transactions' = disputed_transactions \ {last'.tx}
        /\ (last'.kind \notin {"Dispute", "Resolve", "Chargeback"} \/ result' # "Ok") =>
              disputed_transactions' = disputed_transactions
        /\ \A p \in charged_back :
              /\ p[1] \notin disputed_transactions'
              /\ (last'.kind \in {"Dispute", "Resolve", "Chargeback"} /\ last'.tx = p[1]) =>
                     result' # "Ok"
      ]_vars

\* C15 witness: a Dispute of a charged-back deposit was rejected.
C15_Witness ==
    /\ last.kind = "Dispute"
    /\ result # "Ok"
    /\ \E p \in charged_back : p[1] = last.tx
    /\ last.tx \notin disputed_transactions

\* Executing tx1 then tx2, and tx2 then tx1, from engine e gives the same engine and
\* the same result for each of the two.
Commute(e, tx1, tx2) ==
    LET a1 == execute(e, tx1)
        a2 == execute(a1.engine, tx2)
        b2 == execute(e, tx2)
        b1 == execute(b2.engine, tx1)
    IN  /\ a2.engine = b1.engine
        /\ a1.result = b1.result
        /\ a2.result = b2.result

\* The accounts a transaction can touch in engine e: the one a Deposit or
\* Withdrawal names; for a Dispute, Resolve or Chargeback the owner of the deposit
\* recorded under its tx id (none when there is no such deposit).
Targets(e, tx) ==
    IF tx.kind \in {"Deposit", "Withdrawal"} THEN {tx.client}
    ELSE IF tx.tx \in DOMAIN e.transaction_log /\ e.transaction_log[tx.tx].kind = "Deposit"
         THEN {e.transaction_log[tx.tx].client}
         ELSE {}

\* C16 (as claimed): from every reachable state, two transactions whose account
\* identifiers differ give the same final engine and the same results in either
\* order.
C16_DifferentAccountsCommute ==
    \A tx1 \in AllTransactions, tx2 \in AllTransactions :
        tx1.client # tx2.client => Commute(Engine, tx1, tx2)

\* C16 (amended): from every reachable state, two transactions with different tx
\* ids whose target accounts differ give the same final engine and the same
\* results in either order, the target of a Dispute, Resolve or Chargeback being
\* the owner of the referenced deposit, not the identifier the row carries.
C16_DifferentTargetsCommute ==
    \A tx1 \in AllTransactions, tx2 \in AllTransactions :
        (tx1.tx # tx2.tx /\ Targets(Engine, tx1) \cap Targets(Engine, tx2) = {}) =>
            Commute(Engine, tx1, tx2)

\* C16 witness: a state from which a Chargeback carrying client 2, of a deposit
\* owned by client 1, and a Deposit naming client 2 both succeed, in either order.
C16_Witness ==
    \E t1 \in TxIds, t2 \in TxIds :
        LET cb == Chargeback(2, t1)
            dep == Deposit(2, t2, 1)
        IN  /\ t1 # t2
            /\ Targets(Engine, cb) = {1}
            /\ execute(Engine, cb).result = "Ok"
            /\ execute(execute(Engine, cb).engine, dep).result = "Ok"
            /\ execute(Engine, dep).result = "Ok"
            /\ Commute(Engine, cb, dep)

\* ------------------------------------------------------------------- C17
IsTransaction(row) == row \in AllTransactions

\* C17: neither a decode failure nor an execution failure aborts the run: the
\* rows that decode are passed to execute exactly once each and in input order,
\* the others are skipped, the run never ends without the report, and the report
\* shows the accounts as they are after the last row.
C17_RunNeverAborts ==
    /\ pc # "aborted"
    /\ executed = SelectSeq(stream, IsTransaction)
    /\ counter = Len(executed)
    /\ pc = "reported" => report = <<clients>>
    /\ pc = "reading" => report = <<>>

\* C17: the part of the claim the loop does deliver: whatever the reader yielded,
\* exactly the decoded rows reached execute, in input order, and an
\* undeserializable row left the engine untouched.
C17_DecodedRowsExecutedInOrder ==
    /\ executed = SelectSeq(stream, IsTransaction)
    /\ counter = Len(executed)

\* C17 scenario: the reader failed on a record after a row was executed, and main
\* returned without printing the report.
C17_Aborted ==
    /\ pc = "aborted"
    /\ Len(executed) >= 1
    /\ report = <<>>

\* ------------------------------------------------------------------- C18
\* The accounts whose balances or lock flag differ between two ledgers.
ChangedAccounts(before, after) ==
    {c \in ClientIds : AccountOf(after, c) # AccountOf(before, c)}

\* C18: a Dispute, Resolve or Chargeback ignores the account identifier its record
\* carries (any other identifier gives the same engine and the same result) and
\* changes balances or the lock flag only of the account stored in the history
\* entry of its tx id; a row of any kind changes at most one account.
C18_OnlyOwnerChanges ==
    [][ /\ ChangedAccounts(clients, clients') \subseteq Targets(Engine, last')
        /\ Cardinality(ChangedAccounts(clients, clients')) <= 1
        /\ last'.kind \in {"Dispute", "Resolve", "Chargeback"} =>
               \A c \in ClientIds :
                   execute(Engine, [last' EXCEPT !.client = c]) = execute(Engine, last')
      ]_vars

\* C18 witness: a Chargeback carrying one account identifier succeeded on a deposit
\* owned by another account; the owner is locked and has a changed total, the
\* carried account is untouched.
C18_Witness ==
    /\ last.kind = "Chargeback"
    /\ result = "Ok"
    /\ last.tx \in DOMAIN transaction_log
    /\ transaction_log[last.tx].client # last.client
    /\ clients[transaction_log[last.tx].client].locked
    /\ clients[transaction_log[last.tx].client].total # 0
    /\ AccountOf(clients, last.client) = ClientNew(last.client)

\* ------------------------------------------------------------------- C19
\* The disputed deposits owned by account c.
OpenDisputes(c) ==
    {t \in disputed_transactions :
        /\ t \in DOMAIN transaction_log
        /\ transaction_log[t].kind = "Deposit"
        /\ transaction_log[t].client = c}

RECURSIVE SumOfAmounts(_)
SumOfAmounts(txs) ==
    IF txs = {} THEN 0
    ELSE LET t == CHOOSE x \in txs : TRUE
         IN  transaction_log[t].amount + SumOfAmounts(txs \ {t})

\* C19: when no two settlement rows share a tx id, every account's held is the sum
\* of the amounts of its deposits that are in the dispute set; hence held >= 0, and
\* held = 0 for an account without an open dispute.
C19_HeldIsSumOfOpenDisputes ==
    \A c \in DOMAIN clients :
        /\ clients[c].held = SumOfAmounts(OpenDisputes(c))
        /\ clients[c].held >= 0
        /\ OpenDisputes(c) = {} => clients[c].held = 0

\* C19: the part that holds for every stream: held is the sum of the amounts of
\* the account's disputed deposits.
C19_HeldIsSum ==
    \A c \in DOMAIN clients : clients[c].held = SumOfAmounts(OpenDisputes(c))

\* C19 scenario: a deposit of a negative amount is in dispute and its owner holds a
\* negative amount.
C19_NegativeHeld ==
    \E c \in DOMAIN clients :
        /\ OpenDisputes(c) # {}
        /\ clients[c].held < 0

\* ------------------------------------------------------------------- C20
\* The account that owns the deposit recorded under tx id t, if there is one.
OwnersOf(t) ==
    IF t \in DOMAIN transaction_log /\ transaction_log[t].kind = "Deposit"
    THEN {transaction_log[t].client}
    ELSE {}

\* The step leaves every locked account as it was, rejects a Dispute, Resolve or
\* Chargeback of a deposit owned by a locked account, and at most one Chargeback
\* has succeeded per account.
LockedAccountsFrozen ==
    /\ \A c \in DOMAIN clients : clients[c].locked => clients'[c] = clients[c]
    /\ \A c \in Targets(Engine, last') :
           (/\ last'.kind \in {"Dispute", "Resolve", "Chargeback"}
            /\ c \in DOMAIN clients
            /\ clients[c].locked) => result' # "Ok"
    /\ \A p \in charged_back', q \in charged_back' : p[2] = q[2] => p[1] = q[1]

\* C20 (as claimed): a locked account is frozen: no later row changes it, every
\* Dispute, Resolve or Chargeback of one of its deposits fails, at most one
\* Chargeback succeeds per account, and the disputes that were open on the account
\* when it was locked stay in the dispute set forever.
C20_LockedAccountFrozenForever ==
    [][ /\ LockedAccountsFrozen
        /\ frozen_disputes' \subseteq disputed_transactions'
      ]_vars

\* C20 (amended): as above, but a dispute that was open when its account was
\* locked can leave the dispute set after a Deposit of another account has reused
\* its tx id: a row removes a tx id from the dispute set only when it is a
\* successful Resolve or Chargeback of that tx id and the history entry is a
\* deposit owned by an account that is not locked.  While the entry names the
\* locked account the tx id stays; after a Withdrawal has reused the tx id,
\* Resolve and Chargeback fail with IneligibleTransaction and the tx id stays.
C20_LockedAccountFrozen ==
    [][ /\ LockedAccountsFrozen
        /\ \A t \in disputed_transactions :
               /\ t \notin disputed_transactions' =>
                      /\ last'.kind \in {"Resolve", "Chargeback"}
                      /\ last'.tx = t
                      /\ result' = "Ok"
                      /\ \E c \in OwnersOf(t) : ~clients[c].locked
               /\ (/\ last'.kind \in {"Resolve", "Chargeback"}
                   /\ last'.tx = t
                   /\ transaction_log[t].kind = "Withdrawal") =>
                      /\ result' = "IneligibleTransaction"
                      /\ t \in disputed_transactions'
      ]_vars

\* C20 witness: an account is locked, the tx id of a dispute left open on it was
\* reused by a Withdrawal of another account, and a Resolve of that tx id was
\* rejected with IneligibleTransaction; the tx id is still in the dispute set.
C20_Witness ==
    /\ last.kind = "Resolve"
    /\ result = "IneligibleTransaction"
    /\ last.tx \in frozen_disputes
    /\ last.tx \in disputed_transactions
    /\ transaction_log[last.tx].kind = "Withdrawal"
    /\ \E c \in DOMAIN clients :
          /\ clients[c].locked
          /\ c # transaction_log[last.tx].client

\* C20 scenario: a Resolve of a dispute left open on a locked account was rejected
\* with AccountLocked, and the dispute is still in the dispute set.
C20_LockedRejection ==
    /\ last.kind = "Resolve"
    /\ result = "AccountLocked"
    /\ last.tx \in frozen_disputes
    /\ last.tx \in disputed_transactions
    /\ clients[transaction_log[last.tx].client].locked

\* C20 scenario: a dispute left open on a locked account has left the dispute set
\* by a Resolve that succeeded on the account whose Deposit reused its tx id.
C20_ResolvedOnNewOwner ==
    /\ last.kind = "Resolve"
    /\ result = "Ok"
    /\ last.tx \in frozen_disputes
    /\ last.tx \notin disputed_transactions
    /\ ~clients[transaction_log[last.tx].client].locked

====
